---- MODULE Spec2Model ----
(***************************************************************************)
(* Pixel scrambling along a generalized Hilbert curve                      *)
(* (src/Cpp/hilbert_encrypt.cpp): the curve generator generate2d /         *)
(* generate_mapping, the permutation loop copy_pixels and the driver       *)
(* process_image, which reads an image file, permutes it and overwrites    *)
(* the file.                                                               *)
(***************************************************************************)
EXTENDS Integers, Sequences, FiniteSets, TLC

(***************************************************************************)
(* Bounds of the model.                                                    *)
(***************************************************************************)
\* largest image width and height that is enumerated
MaxDim == 5
\* largest width and height of the curves that are enumerated on their own
MaxCurveDim == 12
\* number of consecutive program runs on the same file
MaxRuns == 2
\* how far below zero the dimensions handed to generate_mapping are enumerated
MaxNeg == 1
\* largest width of the images the curve checks are exercised on
MaxDefectDim == 2
\* largest number of files main finds in the folder
MaxFiles == 2

(***************************************************************************)
(* Program constants.                                                      *)
(***************************************************************************)
\* OpenCV depth codes returned by Mat::depth()
CV_8U == 0
CV_8S == 1
CV_16U == 2
CV_32F == 5

\* extensions of SUPPORTED_FORMATS
SUPPORTED_FORMATS == {".png", ".jpg", ".jpeg", ".bmp", ".webp", ".tiff", ".tif"}

\* extensions main accepts when it scans the folder
supported_exts == {".png", ".jpg", ".jpeg", ".bmp", ".webp", ".tiff", ".tif"}

(***************************************************************************)
(* Integer helpers with the semantics of C++ int arithmetic.               *)
(***************************************************************************)
\* abs()
Abs(v) == IF v < 0 THEN -v ELSE v

\* a sign that maps zero to 1
Sgn_nozero(v) == IF v >= 0 THEN 1 ELSE -1

\* (v == 0 ? 0 : v > 0 ? 1 : -1)
Sgn(v) == IF v = 0 THEN 0 ELSE IF v > 0 THEN 1 ELSE -1

\* v / 2 on int: the quotient is truncated toward zero
Half(v) == IF v >= 0 THEN v \div 2 ELSE -((-v) \div 2)

(***************************************************************************)
(* generate2d: the recursive generalized Hilbert curve.                    *)
(***************************************************************************)
\* a straight run that starts one cell late
Line_skipfirst(x, y, n, dx, dy) == [k \in 1..n |-> <<x + k * dx, y + k * dy>>]

\* for (i = 0; i < n; ++i) { emplace_back(x, y); x += dx; y += dy; }
Line(x, y, n, dx, dy) == [k \in 1..n |-> <<x + (k - 1) * dx, y + (k - 1) * dy>>]

\* the recursive calls of one invocation where the first call of the three-way
\* split gets a quarter of the primary vector instead of its half
Children_quarter(x, y, ax, ay, bx, by) ==
    LET w == Abs(ax + ay)
        h == Abs(bx + by)
        dax == Sgn(ax)
        day == Sgn(ay)
        dbx == Sgn(bx)
        dby == Sgn(by)
        ax2 == Half(ax)
        ay2 == Half(ay)
        bx2 == Half(bx)
        by2 == Half(by)
        w2 == Abs(ax2 + ay2)
        h2 == Abs(bx2 + by2)
    IN  IF h = 1 \/ w = 1 THEN <<>>
        ELSE IF 2 * w > 3 * h
        THEN LET adj == (w2 % 2 = 1) /\ (w > 2)
                 ax2a == IF adj THEN ax2 + dax ELSE ax2
                 ay2a == IF adj THEN ay2 + day ELSE ay2
             IN  << <<x, y, ax2a, ay2a, bx, by>>,
                    <<x + ax2a, y + ay2a, ax - ax2a, ay - ay2a, bx, by>> >>
        ELSE LET adj == (h2 % 2 = 1) /\ (h > 2)
                 bx2a == IF adj THEN bx2 + dbx ELSE bx2
                 by2a == IF adj THEN by2 + dby ELSE by2
             IN  << <<x, y, bx2a, by2a, Half(ax2), Half(ay2)>>,
                    <<x + bx2a, y + by2a, ax, ay, bx - bx2a, by - by2a>>,
                    <<x + (ax - dax) + (bx2a - dbx), y + (ay - day) + (by2a - dby),
                      -bx2a, -by2a, -(ax - ax2), -(ay - ay2)>> >>

\* the argument tuples <<x, y, ax, ay, bx, by>> of the recursive calls one
\* invocation of generate2d makes, in the order it makes them; none in the two
\* base cases
Children(x, y, ax, ay, bx, by) ==
    LET w == Abs(ax + ay)
        h == Abs(bx + by)
        dax == Sgn(ax)
        day == Sgn(ay)
        dbx == Sgn(bx)
        dby == Sgn(by)
        ax2 == Half(ax)
        ay2 == Half(ay)
        bx2 == Half(bx)
        by2 == Half(by)
        w2 == Abs(ax2 + ay2)
        h2 == Abs(bx2 + by2)
    IN  IF h = 1 \/ w = 1 THEN <<>>
        ELSE IF 2 * w > 3 * h
        THEN LET adj == (w2 % 2 = 1) /\ (w > 2)
                 ax2a == IF adj THEN ax2 + dax ELSE ax2
                 ay2a == IF adj THEN ay2 + day ELSE ay2
             IN  << <<x, y, ax2a, ay2a, bx, by>>,
                    <<x + ax2a, y + ay2a, ax - ax2a, ay - ay2a, bx, by>> >>
        ELSE LET adj == (h2 % 2 = 1) /\ (h > 2)
                 bx2a == IF adj THEN bx2 + dbx ELSE bx2
                 by2a == IF adj THEN by2 + dby ELSE by2
             IN  << <<x, y, bx2a, by2a, ax2, ay2>>,
                    <<x + bx2a, y + by2a, ax, ay, bx - bx2a, by - by2a>>,
                    <<x + (ax - dax) + (bx2a - dbx), y + (ay - day) + (by2a - dby),
                      -bx2a, -by2a, -(ax - ax2), -(ay - ay2)>> >>

\* generate2d: the coordinates one invocation appends, its own in a base case
\* and those of its recursive calls, in order, otherwise
RECURSIVE generate2d(_, _, _, _, _, _)
generate2d(x, y, ax, ay, bx, by) ==
    LET w == Abs(ax + ay)
        h == Abs(bx + by)
        c == Children(x, y, ax, ay, bx, by)
        sub(k) == generate2d(c[k][1], c[k][2], c[k][3], c[k][4], c[k][5], c[k][6])
    IN  IF h = 1 THEN Line(x, y, w, Sgn(ax), Sgn(ay))
        ELSE IF w = 1 THEN Line(x, y, h, Sgn(bx), Sgn(by))
        ELSE IF Len(c) = 2 THEN sub(1) \o sub(2)
        ELSE sub(1) \o sub(2) \o sub(3)

\* the coordinates pushed by the top-level call of generate_mapping
TopLevelCurve(width, height) ==
    IF width >= height
    THEN generate2d(0, 0, width, 0, 0, height)
    ELSE generate2d(0, 0, 0, height, width, 0)

\* the arguments of the top-level call of generate_mapping
TopLevelCall(width, height) ==
    IF width >= height
    THEN <<0, 0, width, 0, 0, height>>
    ELSE <<0, 0, 0, height, width, 0>>

\* the primary and the orthogonal length of the rectangle of an invocation
PrimaryLen(c) == Abs(c[3] + c[4])
OrthoLen(c) == Abs(c[5] + c[6])

\* the recursive calls of the invocation with arguments c, and what the
\* invocation appends to the coordinates
Calls(c) == Children(c[1], c[2], c[3], c[4], c[5], c[6])
Emitted(c) == generate2d(c[1], c[2], c[3], c[4], c[5], c[6])

\* every invocation of generate2d in the call tree below (and including) the
\* invocation with arguments c
RECURSIVE Invocations(_)
Invocations(c) ==
    {c} \cup UNION {Invocations(Calls(c)[k]) : k \in 1..Len(Calls(c))}

\* the count check at the end of generate_mapping, on the vector generate2d
\* has filled: an empty vector and an error when the count is wrong
count_check(coordinates, width, height) ==
    IF Len(coordinates) # width * height
    THEN [coordinates |-> <<>>, called |-> TRUE, error |-> "count_mismatch"]
    ELSE [coordinates |-> coordinates, called |-> TRUE, error |-> "none"]

\* generate_mapping that rejects the dimensions only when both are invalid
generate_mapping_and(width, height) ==
    IF width <= 0 /\ height <= 0
    THEN [coordinates |-> <<>>, called |-> FALSE, error |-> "invalid_dimensions"]
    ELSE LET coordinates == TopLevelCurve(width, height)
         IN  IF Len(coordinates) # width * height
             THEN [coordinates |-> <<>>, called |-> TRUE, error |-> "count_mismatch"]
             ELSE [coordinates |-> coordinates, called |-> TRUE, error |-> "none"]

\* generate_mapping: the returned vector, whether generate2d was entered, and
\* the error it logged
generate_mapping(width, height) ==
    IF width <= 0 \/ height <= 0
    THEN [coordinates |-> <<>>, called |-> FALSE, error |-> "invalid_dimensions"]
    ELSE count_check(TopLevelCurve(width, height), width, height)

(***************************************************************************)
(* Pixel buffers.  A buffer maps each cell <<x, y>> to a pixel, a tuple of *)
(* channel values.                                                         *)
(***************************************************************************)
Cells(width, height) == {<<x, y>> : x \in 0..(width - 1), y \in 0..(height - 1)}

\* Mat(size, type, Scalar(0)): every channel of every pixel is zero
ZeroBuf(width, height, channels) ==
    [p \in Cells(width, height) |-> [c \in 1..channels |-> 0]]

\* a buffer whose pixels are pairwise distinct: channel 1 holds the row-major
\* index of the cell plus one, channel c > 1 holds c
LabelBuf(width, height, channels) ==
    [p \in Cells(width, height) |->
        [c \in 1..channels |-> IF c = 1 THEN p[2] * width + p[1] + 1 ELSE c]]

\* a buffer that is zero except for channel c0 of the last cell
SpotBuf(width, height, channels, c0) ==
    [p \in Cells(width, height) |->
        [c \in 1..channels |->
            IF p = <<width - 1, height - 1>> /\ c = c0 THEN 1 ELSE 0]]

\* the pixel contents that are enumerated for one shape
Buffers(width, height, channels) ==
    {ZeroBuf(width, height, channels), LabelBuf(width, height, channels)}
    \cup {SpotBuf(width, height, channels, c0) : c0 \in 1..channels}

\* depth codes an image decoder is taken to produce
Depths == {CV_8U, CV_8S, CV_16U, CV_32F}

\* file extensions that are enumerated
Exts == {".png", ".PNG", ".gif"}

\* ::tolower applied to each character of the extension
ToLower(ext) == IF ext = ".PNG" THEN ".png" ELSE ext

\* a default-constructed cv::Mat
EmptyMat == [width |-> 0, height |-> 0, channels |-> 1, depth |-> CV_8U, pixels |-> <<>>]

\* the decoded images that are enumerated: every shape from lo to hi, every
\* channel count and depth, every pixel content of Buffers
Mats(lo, hi) ==
    UNION {{[width |-> wd, height |-> ht, channels |-> ch, depth |-> dp, pixels |-> px] :
                px \in Buffers(wd, ht, ch)} :
            wd \in lo..hi, ht \in lo..hi, ch \in 1..4, dp \in Depths}

\* Mat::empty()
IsEmpty(m) == m.width = 0 \/ m.height = 0

(***************************************************************************)
(* The offset and the index pair of copy_pixels.                           *)
(***************************************************************************)
\* floor of the square root of n, for n >= 0
ISqrt(n) == CHOOSE r \in 0..(n + 1) : r * r <= n /\ n < (r + 1) * (r + 1)

\* round(((sqrt(5) - 1) / 2) * total): with s = sqrt(5 * total^2) this is
\* floor((s - total + 1) / 2) = (floor(s) - total + 1) \div 2; the value is
\* never halfway between two integers, and the double arithmetic of the code
\* gives this integer for every total far beyond the totals enumerated here
GoldenOffset(t) == (ISqrt(5 * t * t) - t + 1) \div 2

\* get_indices that shifts both directions the same way
get_indices_samedir(k, encrypt, off, tot) == <<k, (k + off) % tot>>

\* get_indices with the two directions exchanged
get_indices_swapped(k, encrypt, off, tot) ==
    IF encrypt THEN <<(k + off) % tot, k>> ELSE <<k, (k + off) % tot>>

\* get_indices that saturates at the last index instead of wrapping around
get_indices_clamp(k, encrypt, off, tot) ==
    LET s == IF k + off >= tot THEN tot - 1 ELSE k + off
    IN  IF encrypt THEN <<k, s>> ELSE <<s, k>>

\* get_indices: the 0-based <<src_idx, dest_idx>>
get_indices(k, encrypt, off, tot) ==
    IF encrypt THEN <<k, (k + off) % tot>> ELSE <<(k + off) % tot, k>>

\* the loop body stores only for a depth of CV_8U or CV_16U with 1, 3 or 4
\* channels, here with the branch for 3 channels left out
Stores_no3(channels, depth) ==
    (depth = CV_8U \/ depth = CV_16U) /\ channels \in {1, 4}

\* whether the loop body has a branch for this depth and channel count
Stores(channels, depth) ==
    IF depth = CV_8U THEN channels = 1 \/ channels = 3 \/ channels = 4
    ELSE IF depth = CV_16U THEN channels = 1 \/ channels = 3 \/ channels = 4
    ELSE FALSE

\* dst_img->at<T>(dest_p.y, dest_p.x) = src_img.at<T>(src_p.y, src_p.x): the
\* whole pixel is stored, and nothing is stored where no branch matches
StorePixel(dst, dest_p, pixel, channels, depth) ==
    IF Stores(channels, depth) THEN [dst EXCEPT ![dest_p] = pixel] ELSE dst

(***************************************************************************)
(* cv::sum: the per-channel sums of a buffer, in a Scalar of four entries. *)
(***************************************************************************)
\* the sum of channel c over the first n cells of row y
RECURSIVE RowSum(_, _, _, _)
RowSum(buf, y, n, c) ==
    IF n = 0 THEN 0 ELSE buf[<<n - 1, y>>][c] + RowSum(buf, y, n - 1, c)

\* the sum of channel c over the first m rows of a buffer that is width wide
RECURSIVE RowsSum(_, _, _, _)
RowsSum(buf, width, m, c) ==
    IF m = 0 THEN 0 ELSE RowSum(buf, m - 1, width, c) + RowsSum(buf, width, m - 1, c)

\* cv::sum(m): entry c is the sum of channel c, and 0 for a channel m lacks
cv_sum(buf, width, height, channels) ==
    [c \in 1..4 |-> IF c <= channels THEN RowsSum(buf, width, height, c) ELSE 0]

(***************************************************************************)
(* State.                                                                  *)
(***************************************************************************)
VARIABLES
    file,        \* the image file in the folder "files"
    file0,       \* the file as it was when the current run started
    is_encrypt,  \* the direction of the current run (-e or -d)
    run,         \* the number of the current run
    pc,          \* the position of the current run
    errlog,      \* the errors logged by the current run, in order
    img,         \* process_image: the decoded input image
    curve,       \* process_image: the curve returned by generate_mapping
    called,      \* whether generate_mapping entered generate2d
    total,       \* process_image: width * height
    offset,      \* process_image: the offset handed to copy_pixels
    output_img,  \* process_image: the output buffer
    i,           \* copy_pixels: the loop index
    written,     \* how many times the loop stored into each output cell
    imwrites,    \* how many times the current run called imwrite
    hist,        \* the input, output and direction of the last earlier run
                 \* whose copy_pixels call ran to its end
    disk,        \* main: the content of each file of the vector files
    disk0,       \* the content of each file when main started
    threads,     \* main: the worker threads, each with its position and locals
    current_ctx, \* the thread_local context, one copy for each thread
    cout_mutex,  \* the holder of the console lock
    main_pc,     \* the position of main
    main_i,      \* main: the index of the loop that creates the threads
    processed    \* how many times process_file was called on each file

\* the state of a run of process_image on one file
pvars == <<file, file0, is_encrypt, run, pc, errlog, img, curve, called, total,
           offset, output_img, i, written, imwrites, hist>>

\* the state of main with its worker threads
mvars == <<disk, disk0, threads, current_ctx, cout_mutex, main_pc, main_i, processed>>

vars == <<pvars, mvars>>

\* the values of cout_mutex besides the number of the worker thread that
\* holds it: held by no thread, held by the thread of main
Unlocked == 0
MainThread == 0 - 1

\* main has created no thread
NoThreads ==
    /\ disk = <<>>
    /\ disk0 = <<>>
    /\ threads = <<>>
    /\ current_ctx = <<>>
    /\ cout_mutex = Unlocked
    /\ main_pc = "scan"
    /\ main_i = 0
    /\ processed = <<>>

locals == <<img, curve, called, total, offset, output_img, i, written>>

NoHist == [valid |-> FALSE, src |-> <<>>, dst |-> <<>>, enc |-> FALSE]

\* the locals of process_image before its first statement
LocalsInit ==
    /\ img = EmptyMat
    /\ curve = <<>>
    /\ called = FALSE
    /\ total = 0
    /\ offset = 0
    /\ output_img = <<>>
    /\ i = 0
    /\ written = <<>>

\* the files that are enumerated: ".png" files holding every image of Mats,
\* files with the other extensions holding the images of a single cell,
\* and one file no decoder can read
Files ==
    {[readable |-> TRUE, ext |-> ".png", mat |-> m] : m \in Mats(1, MaxDim)}
    \cup {[readable |-> TRUE, ext |-> e, mat |-> m] : e \in Exts, m \in Mats(1, 1)}
    \cup {[readable |-> FALSE, ext |-> ".png", mat |-> EmptyMat]}

Init ==
    /\ file \in Files
    /\ file0 = file
    /\ is_encrypt \in BOOLEAN
    /\ run = 1
    /\ pc = "main"
    /\ errlog = <<>>
    /\ LocalsInit
    /\ imwrites = 0
    /\ hist = NoHist
    /\ NoThreads

\* log(msg, true); return;
Fail(kind) ==
    /\ pc' = "failed"
    /\ errlog' = Append(errlog, kind)

(***************************************************************************)
(* main: the folder scan keeps the files with a supported extension and a  *)
(* worker calls process_file, which calls process_image(path, path, ...).  *)
(***************************************************************************)
Main ==
    /\ pc = "main"
    /\ pc' = IF ToLower(file.ext) \in supported_exts THEN "read" ELSE "exit"
    /\ UNCHANGED <<file, file0, is_encrypt, run, errlog, locals, imwrites, hist>>
    /\ UNCHANGED mvars

(***************************************************************************)
(* process_image.                                                          *)
(***************************************************************************)
ReadImage ==
    /\ pc = "read"
    /\ img' = IF file.readable THEN file.mat ELSE EmptyMat
    /\ IF IsEmpty(img')
       THEN Fail("unreadable")
       ELSE pc' = "extension" /\ UNCHANGED errlog
    /\ UNCHANGED <<file, file0, is_encrypt, run, curve, called, total, offset,
                   output_img, i, written, imwrites, hist>>
    /\ UNCHANGED mvars

CheckExtension ==
    /\ pc = "extension"
    /\ IF ToLower(file.ext) \notin SUPPORTED_FORMATS
       THEN Fail("unsupported_extension")
       ELSE pc' = "format" /\ UNCHANGED errlog
    /\ UNCHANGED <<file, file0, is_encrypt, run, locals, imwrites, hist>>
    /\ UNCHANGED mvars

\* the channel check alone
FormatError_nodepth(channels, depth) ==
    IF channels # 1 /\ channels # 3 /\ channels # 4 THEN "unsupported_channels"
    ELSE "none"

\* the error of the channel and depth checks, "none" when both pass
FormatError(channels, depth) ==
    IF channels # 1 /\ channels # 3 /\ channels # 4 THEN "unsupported_channels"
    ELSE IF depth # CV_8U /\ depth # CV_16U THEN "unsupported_depth"
    ELSE "none"

CheckFormat ==
    /\ pc = "format"
    /\ IF FormatError(img.channels, img.depth) # "none"
       THEN Fail(FormatError(img.channels, img.depth))
       ELSE pc' = "generate" /\ UNCHANGED errlog
    /\ UNCHANGED <<file, file0, is_encrypt, run, locals, imwrites, hist>>
    /\ UNCHANGED mvars

GenerateMapping ==
    /\ pc = "generate"
    /\ LET r == generate_mapping(img.width, img.height)
       IN  /\ curve' = r.coordinates
           /\ called' = r.called
           /\ errlog' = IF r.error = "none" THEN errlog ELSE Append(errlog, r.error)
    /\ total' = img.width * img.height
    /\ pc' = "validate"
    /\ UNCHANGED <<file, file0, is_encrypt, run, img, offset, output_img, i,
                   written, imwrites, hist>>
    /\ UNCHANGED mvars

\* the curve checks without the loop over the coordinates
CurveError_norange(c, tot, width, height) ==
    IF c = <<>> THEN "empty_curve"
    ELSE IF Len(c) # tot THEN "length_mismatch"
    ELSE "none"

\* the error of the three curve checks, "none" when all pass
CurveError(c, tot, width, height) ==
    IF c = <<>> THEN "empty_curve"
    ELSE IF Len(c) # tot THEN "length_mismatch"
    ELSE IF \E k \in 1..Len(c) :
                c[k][1] < 0 \/ c[k][1] >= width \/ c[k][2] < 0 \/ c[k][2] >= height
         THEN "out_of_range"
    ELSE "none"

ValidateCurve ==
    /\ pc = "validate"
    /\ IF CurveError(curve, total, img.width, img.height) # "none"
       THEN Fail(CurveError(curve, total, img.width, img.height))
       ELSE pc' = "prepare" /\ UNCHANGED errlog
    /\ UNCHANGED <<file, file0, is_encrypt, run, locals, imwrites, hist>>
    /\ UNCHANGED mvars

PrepareCopy ==
    /\ pc = "prepare"
    /\ output_img' = ZeroBuf(img.width, img.height, img.channels)
    /\ written' = [p \in Cells(img.width, img.height) |-> 0]
    /\ offset' = GoldenOffset(total)
    /\ i' = 0
    /\ pc' = "copy"
    /\ UNCHANGED <<file, file0, is_encrypt, run, errlog, img, curve, called, total,
                   imwrites, hist>>
    /\ UNCHANGED mvars

(***************************************************************************)
(* copy_pixels: one action per iteration of the loop.                      *)
(***************************************************************************)
\* an iteration of the loop that permutes in place: the pixel is stored into
\* the source image as well
CopyPixel_inplace ==
    /\ pc = "copy"
    /\ i < total
    /\ LET idx == get_indices(i, is_encrypt, offset, total)
           src_p == curve[idx[1] + 1]
           dest_p == curve[idx[2] + 1]
       IN  /\ output_img' = StorePixel(output_img, dest_p, img.pixels[src_p],
                                       img.channels, img.depth)
           /\ img' = [img EXCEPT !.pixels = StorePixel(img.pixels, dest_p, img.pixels[src_p],
                                                       img.channels, img.depth)]
           /\ written' = IF Stores(img.channels, img.depth)
                         THEN [written EXCEPT ![dest_p] = @ + 1]
                         ELSE written
    /\ i' = i + 1
    /\ UNCHANGED <<file, file0, is_encrypt, run, pc, errlog, curve, called,
                   total, offset, imwrites, hist>>
    /\ UNCHANGED mvars

CopyPixel ==
    /\ pc = "copy"
    /\ i < total
    /\ LET idx == get_indices(i, is_encrypt, offset, total)
           src_p == curve[idx[1] + 1]
           dest_p == curve[idx[2] + 1]
       IN  /\ output_img' = StorePixel(output_img, dest_p, img.pixels[src_p],
                                       img.channels, img.depth)
           /\ written' = IF Stores(img.channels, img.depth)
                         THEN [written EXCEPT ![dest_p] = @ + 1]
                         ELSE written
    /\ i' = i + 1
    /\ UNCHANGED <<file, file0, is_encrypt, run, pc, errlog, img, curve, called,
                   total, offset, imwrites, hist>>
    /\ UNCHANGED mvars

CopyReturn ==
    /\ pc = "copy"
    /\ ~(i < total)
    /\ pc' = "verify"
    /\ UNCHANGED <<file, file0, is_encrypt, run, errlog, locals, imwrites, hist>>
    /\ UNCHANGED mvars

(***************************************************************************)
(* process_image, after the copy.                                          *)
(***************************************************************************)
\* sum[0] == 0 && sum[1] == 0 && sum[2] == 0 && sum[3] == 0
SumIsZero(buf, m) ==
    LET sum == cv_sum(buf, m.width, m.height, m.channels)
    IN  sum[1] = 0 /\ sum[2] = 0 /\ sum[3] = 0 /\ sum[4] = 0

\* the all-zero check made only after the buffer was saved
VerifyOutput_aftersave ==
    /\ pc = "verify"
    /\ file' = [file EXCEPT !.mat.pixels = output_img]
    /\ imwrites' = imwrites + 1
    /\ IF SumIsZero(output_img, img)
       THEN Fail("all_zero")
       ELSE pc' = "done" /\ UNCHANGED errlog
    /\ UNCHANGED <<file0, is_encrypt, run, locals, hist>>
    /\ UNCHANGED mvars

VerifyOutput ==
    /\ pc = "verify"
    /\ IF SumIsZero(output_img, img)
       THEN Fail("all_zero")
       ELSE pc' = "writable" /\ UNCHANGED errlog
    /\ UNCHANGED <<file, file0, is_encrypt, run, locals, imwrites, hist>>
    /\ UNCHANGED mvars

\* the target exists (it is the file that was read); opening it for append
\* succeeds or not
CheckWritable ==
    /\ pc = "writable"
    /\ \E is_open \in BOOLEAN :
          IF ~is_open
          THEN Fail("not_writable")
          ELSE pc' = "save" /\ UNCHANGED errlog
    /\ UNCHANGED <<file, file0, is_encrypt, run, locals, imwrites, hist>>
    /\ UNCHANGED mvars

\* imwrite stores the buffer (the codec is taken to be lossless) or returns false
\* and leaves the file as it was; process_image goes on to its end either way
SaveImage ==
    /\ pc = "save"
    /\ imwrites' = imwrites + 1
    /\ \E ok \in BOOLEAN :
          IF ok
          THEN /\ file' = [file EXCEPT !.mat.pixels = output_img]
               /\ UNCHANGED errlog
          ELSE /\ errlog' = Append(errlog, "save_failed")
               /\ UNCHANGED file
    /\ pc' = "done"
    /\ UNCHANGED <<file0, is_encrypt, run, locals, hist>>
    /\ UNCHANGED mvars

(***************************************************************************)
(* The program is started again on the same folder, in either direction.   *)
(***************************************************************************)
Rerun ==
    /\ pc \in {"done", "failed"}
    /\ run < MaxRuns
    /\ run' = run + 1
    /\ is_encrypt' \in BOOLEAN
    /\ file0' = file
    /\ pc' = "main"
    /\ errlog' = <<>>
    /\ img' = EmptyMat
    /\ curve' = <<>>
    /\ called' = FALSE
    /\ total' = 0
    /\ offset' = 0
    /\ output_img' = <<>>
    /\ i' = 0
    /\ written' = <<>>
    /\ imwrites' = 0
    /\ hist' = IF total > 0 /\ i = total /\ written # <<>>
               THEN [valid |-> TRUE, src |-> img.pixels, dst |-> output_img,
                     enc |-> is_encrypt]
               ELSE hist
    /\ UNCHANGED file
    /\ UNCHANGED mvars

Next ==
    \/ Main
    \/ ReadImage
    \/ CheckExtension
    \/ CheckFormat
    \/ GenerateMapping
    \/ ValidateCurve
    \/ PrepareCopy
    \/ CopyPixel
    \/ CopyReturn
    \/ VerifyOutput
    \/ CheckWritable
    \/ SaveImage
    \/ Rerun

Spec == Init /\ [][Next]_vars

(***************************************************************************)
(* generate_mapping and its caller on their own: process_image from the    *)
(* call of generate_mapping on, for one-channel 8-bit images whose width   *)
(* and height run from below zero up to MaxCurveDim.  process_image itself *)
(* never gets that far with an empty image; this specification checks the  *)
(* generator for every pair of integers it can be handed.                  *)
(***************************************************************************)
MappingMats ==
    {[width |-> wd, height |-> ht, channels |-> 1, depth |-> CV_8U,
      pixels |-> LabelBuf(wd, ht, 1)] :
        wd \in (0 - MaxNeg)..MaxCurveDim, ht \in (0 - MaxNeg)..MaxCurveDim}

InitMapping ==
    /\ img \in MappingMats
    /\ file = [readable |-> TRUE, ext |-> ".png", mat |-> img]
    /\ file0 = file
    /\ is_encrypt \in BOOLEAN
    /\ run = 1
    /\ pc = "generate"
    /\ errlog = <<>>
    /\ curve = <<>>
    /\ called = FALSE
    /\ total = 0
    /\ offset = 0
    /\ output_img = <<>>
    /\ i = 0
    /\ written = <<>>
    /\ imwrites = 0
    /\ hist = NoHist
    /\ NoThreads

NextMapping ==
    \/ GenerateMapping
    \/ ValidateCurve
    \/ PrepareCopy
    \/ CopyPixel
    \/ CopyReturn
    \/ VerifyOutput
    \/ CheckWritable
    \/ SaveImage

SpecMapping == InitMapping /\ [][NextMapping]_vars

(***************************************************************************)
(* The curve checks on their own.  The generator of this program never     *)
(* returns a vector of the wrong size or a coordinate outside the image,   *)
(* so the checks behind it are exercised here on every vector a defective  *)
(* generate2d could have filled: any sequence of up to width + 1 cells of  *)
(* the rectangle grown by one cell on every side, for one-row images of    *)
(* width 1..MaxDefectDim.  A behaviour starts where generate2d has         *)
(* returned into generate_mapping, with that vector held in curve.         *)
(***************************************************************************)
DefectMats ==
    {[width |-> wd, height |-> 1, channels |-> 1, depth |-> CV_8U,
      pixels |-> LabelBuf(wd, 1, 1)] : wd \in 1..MaxDefectDim}

\* the vectors of at most n cells with x in -1..width and y in -1..1
RECURSIVE DefectCurves(_, _)
DefectCurves(width, n) ==
    IF n = 0 THEN {<<>>}
    ELSE DefectCurves(width, n - 1) \cup
         {Append(c, <<x, y>>) : c \in {d \in DefectCurves(width, n - 1) : Len(d) = n - 1},
                                x \in (0 - 1)..width, y \in (0 - 1)..1}

InitDefect ==
    /\ img \in DefectMats
    /\ file = [readable |-> TRUE, ext |-> ".png", mat |-> img]
    /\ file0 = file
    /\ is_encrypt \in BOOLEAN
    /\ run = 1
    /\ pc = "count"
    /\ errlog = <<>>
    /\ curve \in DefectCurves(img.width, img.width + 1)
    /\ called = TRUE
    /\ total = 0
    /\ offset = 0
    /\ output_img = <<>>
    /\ i = 0
    /\ written = <<>>
    /\ imwrites = 0
    /\ hist = NoHist
    /\ NoThreads

\* the end of generate_mapping and its return into process_image
CheckCount ==
    /\ pc = "count"
    /\ LET r == count_check(curve, img.width, img.height)
       IN  /\ curve' = r.coordinates
           /\ errlog' = IF r.error = "none" THEN errlog ELSE Append(errlog, r.error)
    /\ total' = img.width * img.height
    /\ pc' = "validate"
    /\ UNCHANGED <<file, file0, is_encrypt, run, img, called, offset, output_img, i,
                   written, imwrites, hist>>
    /\ UNCHANGED mvars

NextDefect ==
    \/ CheckCount
    \/ ValidateCurve
    \/ PrepareCopy
    \/ CopyPixel
    \/ CopyReturn
    \/ VerifyOutput
    \/ CheckWritable
    \/ SaveImage

SpecDefect == InitDefect /\ [][NextDefect]_vars

(***************************************************************************)
(* main with one worker thread for each file.  The vector files holds the  *)
(* paths 1..n; disk maps each path to the content of the file.  A thread   *)
(* is a record of its position and of the locals of the lambda and of the  *)
(* process_image call it makes.  A log call takes the console lock, prints *)
(* and releases it, and is one step that needs the lock to be free; the    *)
(* two blocks of the lambda and the last block of main hold the lock over  *)
(* a step.  is_encrypt is the flag encrypt of main.                        *)
(***************************************************************************)
\* the whole loop of copy_pixels from iteration k on: the destination buffer
\* after the last iteration
RECURSIVE copy_pixels(_, _, _, _, _, _, _, _, _)
copy_pixels(src, dst, c, tot, off, encrypt, channels, depth, k) ==
    IF ~(k < tot) THEN dst
    ELSE LET idx == get_indices(k, encrypt, off, tot)
             src_p == c[idx[1] + 1]
             dest_p == c[idx[2] + 1]
         IN  copy_pixels(src, StorePixel(dst, dest_p, src[src_p], channels, depth),
                         c, tot, off, encrypt, channels, depth, k + 1)

\* process_image on the file f alone, up to the point where it is about to
\* write: the error it stops on ("none" when it does not) and its output buffer
process_image(f, encrypt) ==
    LET m == IF f.readable THEN f.mat ELSE EmptyMat
        r == generate_mapping(m.width, m.height)
        tot == m.width * m.height
        out == copy_pixels(m.pixels, ZeroBuf(m.width, m.height, m.channels),
                           r.coordinates, tot, GoldenOffset(tot), encrypt,
                           m.channels, m.depth, 0)
    IN  IF IsEmpty(m) THEN [error |-> "unreadable", output |-> <<>>]
        ELSE IF ToLower(f.ext) \notin SUPPORTED_FORMATS
        THEN [error |-> "unsupported_extension", output |-> <<>>]
        ELSE IF FormatError(m.channels, m.depth) # "none"
        THEN [error |-> FormatError(m.channels, m.depth), output |-> <<>>]
        ELSE IF CurveError(r.coordinates, tot, m.width, m.height) # "none"
        THEN [error |-> CurveError(r.coordinates, tot, m.width, m.height), output |-> <<>>]
        ELSE IF SumIsZero(out, m) THEN [error |-> "all_zero", output |-> out]
        ELSE [error |-> "none", output |-> out]

\* the files main is run on: a 3 x 1 and a 2 x 2 image with distinct pixels,
\* an all-zero image, and a file no decoder reads
ThreadFiles ==
    {[readable |-> TRUE, ext |-> ".png",
      mat |-> [width |-> 3, height |-> 1, channels |-> 1, depth |-> CV_8U,
               pixels |-> LabelBuf(3, 1, 1)]],
     [readable |-> TRUE, ext |-> ".png",
      mat |-> [width |-> 2, height |-> 2, channels |-> 3, depth |-> CV_16U,
               pixels |-> LabelBuf(2, 2, 3)]],
     [readable |-> TRUE, ext |-> ".png",
      mat |-> [width |-> 1, height |-> 1, channels |-> 1, depth |-> CV_8U,
               pixels |-> ZeroBuf(1, 1, 1)]],
     [readable |-> FALSE, ext |-> ".png", mat |-> EmptyMat]}

\* the value-initialised thread_local context
NoContext == [file_index |-> 0, total_files |-> 0]

\* a thread that main has not created yet
NoThread ==
    [pc |-> "none", i |-> 0, path |-> 0, img |-> EmptyMat, curve |-> <<>>,
     output_img |-> <<>>, prefix |-> 0, joined |-> FALSE]

InitMain ==
    /\ \E n \in 1..MaxFiles : disk \in [1..n -> ThreadFiles]
    /\ disk0 = disk
    /\ threads = [t \in DOMAIN disk |-> NoThread]
    /\ current_ctx = [t \in DOMAIN disk |-> NoContext]
    /\ cout_mutex = Unlocked
    /\ main_pc = "spawn"
    /\ main_i = 0
    /\ processed = [f \in DOMAIN disk |-> 0]
    /\ file = [readable |-> FALSE, ext |-> ".png", mat |-> EmptyMat]
    /\ file0 = file
    /\ is_encrypt \in BOOLEAN
    /\ run = 1
    /\ pc = "threads"
    /\ errlog = <<>>
    /\ LocalsInit
    /\ imwrites = 0
    /\ hist = NoHist

\* files.size()
NumFiles == Len(disk)

\* the index a lambda that captures the loop index by reference reads: the
\* current value of the index of main, or the last index once the loop is over
captured_i_byref(own, current, n) == IF current < n THEN current ELSE n - 1

\* the index the lambda [&, i] uses: its own copy, made when it was created
captured_i(own, current, n) == own

\* main: threads.emplace_back(...) for the file of index main_i
Spawn ==
    /\ main_pc = "spawn"
    /\ main_i < NumFiles
    /\ threads' = [threads EXCEPT ![main_i + 1] = [@ EXCEPT !.pc = "created", !.i = main_i]]
    /\ main_i' = main_i + 1
    /\ UNCHANGED <<disk, disk0, current_ctx, cout_mutex, main_pc, processed>>
    /\ UNCHANGED pvars

\* main: the loop that creates the threads is over
SpawnDone ==
    /\ main_pc = "spawn"
    /\ ~(main_i < NumFiles)
    /\ main_pc' = "join"
    /\ UNCHANGED <<disk, disk0, threads, current_ctx, cout_mutex, main_i, processed>>
    /\ UNCHANGED pvars

\* main: t.join() returns for the first thread not joined yet, once that
\* thread has finished
Join ==
    /\ main_pc = "join"
    /\ \E t \in DOMAIN threads :
          /\ ~threads[t].joined
          /\ \A u \in 1..(t - 1) : threads[u].joined
          /\ threads[t].pc = "finished"
          /\ threads' = [threads EXCEPT ![t].joined = TRUE]
    /\ UNCHANGED <<disk, disk0, current_ctx, cout_mutex, main_pc, main_i, processed>>
    /\ UNCHANGED pvars

\* main: every thread is joined; lock_guard of the last block
ReportLock ==
    /\ main_pc = "join"
    /\ \A t \in DOMAIN threads : threads[t].joined
    /\ cout_mutex = Unlocked
    /\ cout_mutex' = MainThread
    /\ main_pc' = "report"
    /\ UNCHANGED <<disk, disk0, threads, current_ctx, main_i, processed>>
    /\ UNCHANGED pvars

\* main: the completion message, the end of the block, return 0
Report ==
    /\ main_pc = "report"
    /\ cout_mutex' = Unlocked
    /\ main_pc' = "exit"
    /\ UNCHANGED <<disk, disk0, threads, current_ctx, main_i, processed>>
    /\ UNCHANGED pvars

\* thread t: string path = files[i]
WorkerStart(t) ==
    /\ threads[t].pc = "created"
    /\ threads' = [threads EXCEPT ![t].pc = "start",
                                  ![t].path = captured_i(threads[t].i, main_i, NumFiles) + 1]
    /\ UNCHANGED <<disk, disk0, current_ctx, cout_mutex, main_pc, main_i, processed>>
    /\ UNCHANGED pvars

\* thread t: lock_guard of the first block
WorkerAnnounceLock(t) ==
    /\ threads[t].pc = "start"
    /\ cout_mutex = Unlocked
    /\ cout_mutex' = t
    /\ threads' = [threads EXCEPT ![t].pc = "announce"]
    /\ UNCHANGED <<disk, disk0, current_ctx, main_pc, main_i, processed>>
    /\ UNCHANGED pvars

\* thread t: the start message, the end of the first block, and the
\* assignment to its copy of current_ctx
WorkerSetContext(t) ==
    /\ threads[t].pc = "announce"
    /\ cout_mutex' = Unlocked
    /\ current_ctx' = [current_ctx EXCEPT
                          ![t] = [file_index |-> captured_i(threads[t].i, main_i, NumFiles) + 1,
                                  total_files |-> NumFiles]]
    /\ threads' = [threads EXCEPT ![t].pc = "process"]
    /\ UNCHANGED <<disk, disk0, main_pc, main_i, processed>>
    /\ UNCHANGED pvars

\* thread t: process_file(path, encrypt) up to the check of the image read
WorkerRead(t) ==
    /\ threads[t].pc = "process"
    /\ cout_mutex = Unlocked
    /\ LET f == disk[threads[t].path]
           m == IF f.readable THEN f.mat ELSE EmptyMat
       IN  threads' = [threads EXCEPT ![t].img = m,
                                      ![t].prefix = current_ctx[t].file_index,
                                      ![t].pc = IF IsEmpty(m) THEN "end" ELSE "check"]
    /\ processed' = [processed EXCEPT ![threads[t].path] = @ + 1]
    /\ UNCHANGED <<disk, disk0, current_ctx, cout_mutex, main_pc, main_i>>
    /\ UNCHANGED pvars

\* thread t: the extension, channel and depth checks, generate_mapping and the
\* checks of the curve
WorkerCheck(t) ==
    /\ threads[t].pc = "check"
    /\ cout_mutex = Unlocked
    /\ LET m == threads[t].img
           r == generate_mapping(m.width, m.height)
           bad == \/ ToLower(disk[threads[t].path].ext) \notin SUPPORTED_FORMATS
                  \/ FormatError(m.channels, m.depth) # "none"
                  \/ CurveError(r.coordinates, m.width * m.height, m.width, m.height) # "none"
       IN  threads' = [threads EXCEPT ![t].curve = IF bad THEN <<>> ELSE r.coordinates,
                                      ![t].prefix = current_ctx[t].file_index,
                                      ![t].pc = IF bad THEN "end" ELSE "copy"]
    /\ UNCHANGED <<disk, disk0, current_ctx, cout_mutex, main_pc, main_i, processed>>
    /\ UNCHANGED pvars

\* thread t: output_img, the offset and the call of copy_pixels
WorkerCopy(t) ==
    /\ threads[t].pc = "copy"
    /\ cout_mutex = Unlocked
    /\ LET m == threads[t].img
           tot == m.width * m.height
       IN  threads' = [threads EXCEPT
               ![t].output_img = copy_pixels(m.pixels, ZeroBuf(m.width, m.height, m.channels),
                                             threads[t].curve, tot, GoldenOffset(tot),
                                             is_encrypt, m.channels, m.depth, 0),
               ![t].prefix = current_ctx[t].file_index,
               ![t].pc = "verify"]
    /\ UNCHANGED <<disk, disk0, current_ctx, cout_mutex, main_pc, main_i, processed>>
    /\ UNCHANGED pvars

\* thread t: the all-zero check, the writability check and imwrite
WorkerSave(t) ==
    /\ threads[t].pc = "verify"
    /\ cout_mutex = Unlocked
    /\ threads' = [threads EXCEPT ![t].prefix = current_ctx[t].file_index, ![t].pc = "end"]
    /\ IF SumIsZero(threads[t].output_img, threads[t].img)
       THEN UNCHANGED disk
       ELSE \E ok \in BOOLEAN :
               disk' = IF ok
                       THEN [disk EXCEPT ![threads[t].path].mat.pixels = threads[t].output_img]
                       ELSE disk
    /\ UNCHANGED <<disk0, current_ctx, cout_mutex, main_pc, main_i, processed>>
    /\ UNCHANGED pvars

\* thread t: lock_guard of the last block
WorkerEndLock(t) ==
    /\ threads[t].pc = "end"
    /\ cout_mutex = Unlocked
    /\ cout_mutex' = t
    /\ threads' = [threads EXCEPT ![t].pc = "ending"]
    /\ UNCHANGED <<disk, disk0, current_ctx, main_pc, main_i, processed>>
    /\ UNCHANGED pvars

\* thread t: the end message, the end of the block and of the lambda
WorkerEnd(t) ==
    /\ threads[t].pc = "ending"
    /\ cout_mutex' = Unlocked
    /\ threads' = [threads EXCEPT ![t].pc = "finished"]
    /\ UNCHANGED <<disk, disk0, current_ctx, main_pc, main_i, processed>>
    /\ UNCHANGED pvars

NextMain ==
    \/ Spawn
    \/ SpawnDone
    \/ Join
    \/ ReportLock
    \/ Report
    \/ \E t \in DOMAIN threads : WorkerStart(t)
    \/ \E t \in DOMAIN threads : WorkerAnnounceLock(t)
    \/ \E t \in DOMAIN threads : WorkerSetContext(t)
    \/ \E t \in DOMAIN threads : WorkerRead(t)
    \/ \E t \in DOMAIN threads : WorkerCheck(t)
    \/ \E t \in DOMAIN threads : WorkerCopy(t)
    \/ \E t \in DOMAIN threads : WorkerSave(t)
    \/ \E t \in DOMAIN threads : WorkerEndLock(t)
    \/ \E t \in DOMAIN threads : WorkerEnd(t)

SpecMain == InitMain /\ [][NextMain]_vars

(***************************************************************************)
(* Properties.                                                             *)
(***************************************************************************)
\* generate_mapping has returned
Generated == pc \notin {"main", "exit", "read", "extension", "format", "generate"}

\* the loop of copy_pixels has run to its end
CopyFinished == total > 0 /\ i = total /\ written # <<>>

\* every channel of every pixel of the buffer is zero
IsAllZero(buf) == \A p \in DOMAIN buf : \A c \in DOMAIN buf[p] : buf[p][c] = 0

\* the last error that was logged, "none" when there is none
LastError == IF errlog = <<>> THEN "none" ELSE errlog[Len(errlog)]

\* C1: for width, height >= 1 generate_mapping returns exactly width * height
\* coordinates, the set of these coordinates is the set of cells of the
\* rectangle (none is out of range, none is missing), and no two are equal.
C1_CurveCoversRectangle ==
    (Generated /\ img.width >= 1 /\ img.height >= 1) =>
        /\ Len(curve) = img.width * img.height
        /\ {curve[k] : k \in 1..Len(curve)} = Cells(img.width, img.height)
        /\ Cardinality({curve[k] : k \in 1..Len(curve)}) = Len(curve)

\* the 5 x 2 curve has been generated and has passed the checks of the caller
C1_Witness ==
    /\ pc = "copy"
    /\ img.width = 5 /\ img.height = 2
    /\ Len(curve) = 10

\* C2: when copy_pixels has run to its end on the buffer that the last
\* copy_pixels call of an earlier run produced, in the opposite direction, its
\* output buffer equals the input buffer of that earlier call.
C2_RoundTrip ==
    (CopyFinished /\ hist.valid /\ hist.enc # is_encrypt /\ img.pixels = hist.dst) =>
        output_img = hist.src

\* a 3 x 3 image with distinct pixels was scrambled, saved, and unscrambled
\* again; the scrambled image differs from the original
C2_Witness ==
    /\ CopyFinished
    /\ hist.valid /\ hist.enc /\ ~is_encrypt
    /\ img.width = 3 /\ img.height = 3
    /\ hist.src = LabelBuf(3, 3, img.channels)
    /\ hist.dst # hist.src
    /\ img.pixels = hist.dst
    /\ output_img = hist.src

\* C3: no destination cell is stored twice, and when the loop has finished
\* every destination cell has been stored exactly once.
C3_WrittenExactlyOnce ==
    (written # <<>>) =>
        /\ DOMAIN written = Cells(img.width, img.height)
        /\ \A p \in DOMAIN written : written[p] <= 1
        /\ Cardinality({p \in DOMAIN written : written[p] = 1}) = i
        /\ i = total => \A p \in DOMAIN written : written[p] = 1

\* the unscrambling loop over a 3 x 3 image has finished
C3_Witness ==
    /\ CopyFinished
    /\ ~is_encrypt
    /\ total = 9
    /\ \A p \in DOMAIN written : written[p] = 1

\* C4: the offset handed to copy_pixels lies in [0, total).
C4_OffsetInRange ==
    (pc = "copy") => (0 <= offset /\ offset < total)

\* C5: for every index k the loop has handled, scrambling put the input pixel of
\* cell curve[k] at cell curve[(k + offset) mod total], unscrambling put the
\* input pixel of cell curve[(k + offset) mod total] at cell curve[k]; the
\* indices the loop uses are within [0, total).
C5_IndexMapping ==
    (written # <<>>) =>
        /\ \A k \in 0..(total - 1) :
              /\ get_indices(k, is_encrypt, offset, total)[1] \in 0..(total - 1)
              /\ get_indices(k, is_encrypt, offset, total)[2] \in 0..(total - 1)
        /\ \A k \in 0..(i - 1) :
              LET shifted == ((k + offset) % total) + 1
              IN  IF is_encrypt
                  THEN output_img[curve[shifted]] = img.pixels[curve[k + 1]]
                  ELSE output_img[curve[k + 1]] = img.pixels[curve[shifted]]

\* a 3 x 3 image with distinct pixels has been scrambled with offset 6: the
\* pixel of the first cell of the curve is at its seventh cell
C5_Witness ==
    /\ CopyFinished
    /\ is_encrypt
    /\ total = 9 /\ offset = 6
    /\ img.pixels = LabelBuf(3, 3, img.channels)
    /\ output_img[curve[7]] = img.pixels[curve[1]]
    /\ output_img[curve[7]] # img.pixels[curve[7]]

\* process_image has made its all-zero check
Verified ==
    \/ pc \in {"writable", "save", "done"}
    \/ pc = "failed" /\ LastError \in {"all_zero", "not_writable"}

\* C6: the all-zero error is logged exactly when the output is all zero and
\* the source was not; an all-zero source passes without that error.
C6_IntegrityErrorExact ==
    Verified =>
        (("all_zero" = LastError) <=> (IsAllZero(output_img) /\ ~IsAllZero(img.pixels)))

\* C7: for width <= 0 or height <= 0 generate_mapping logs the error and
\* returns an empty vector without entering generate2d, and the caller stops
\* without allocating the output or storing a pixel.
C7_InvalidDimensionsRejected ==
    (Generated /\ (img.width <= 0 \/ img.height <= 0)) =>
        /\ curve = <<>>
        /\ ~called
        /\ errlog # <<>> /\ errlog[1] = "invalid_dimensions"
        /\ pc \in {"validate", "failed"}
        /\ pc = "failed" => errlog = <<"invalid_dimensions", "empty_curve">>
        /\ output_img = <<>> /\ written = <<>> /\ i = 0
        /\ imwrites = 0 /\ file = file0

\* the caller has stopped on the empty curve of a 0 x 3 image
C7_Witness ==
    /\ pc = "failed"
    /\ img.width = 0 /\ img.height = 3
    /\ ~called
    /\ errlog = <<"invalid_dimensions", "empty_curve">>

\* the image has a channel count or depth outside the supported set
Unsupported(m) == m.channels \notin {1, 3, 4} \/ m.depth \notin {CV_8U, CV_16U}

\* C8: an image with an unsupported channel count or depth is rejected with
\* the matching error before the curve is generated and before any pixel is
\* stored.
C8_UnsupportedFormatRejected ==
    (~IsEmpty(img) /\ Unsupported(img) /\ pc \notin {"read", "extension", "format"}) =>
        /\ pc = "failed"
        /\ errlog = <<IF img.channels \notin {1, 3, 4}
                      THEN "unsupported_channels" ELSE "unsupported_depth">>
        /\ curve = <<>> /\ ~called /\ total = 0
        /\ output_img = <<>> /\ written = <<>> /\ i = 0
        /\ imwrites = 0 /\ file = file0

\* a two-channel image has been rejected
C8_Witness ==
    /\ pc = "failed"
    /\ img.channels = 2 /\ img.depth = CV_8U
    /\ img.width = 3 /\ img.height = 2
    /\ errlog = <<"unsupported_channels">>

\* C9: when process_image has returned on one of its errors, imwrite was not
\* called and the stored image is what it was when the run started.
C9_FailureExposesNothing ==
    (pc = "failed") =>
        /\ LastError \in {"unreadable", "unsupported_extension", "unsupported_channels",
                          "unsupported_depth", "empty_curve", "length_mismatch",
                          "out_of_range", "all_zero", "not_writable"}
        /\ imwrites = 0
        /\ file = file0

\* the target could not be opened after the whole output buffer was filled
C9_Witness ==
    /\ pc = "failed"
    /\ errlog = <<"not_writable">>
    /\ CopyFinished
    /\ ~IsAllZero(output_img)
    /\ file = file0

\* C10: for height 1 the curve is (0,0), (1,0), ..., (W-1,0); for width 1 it
\* is (0,0), (0,1), ..., (0,H-1).
C10_StraightLine ==
    Generated =>
        /\ (img.height = 1 /\ img.width >= 1) =>
              curve = [k \in 1..img.width |-> <<k - 1, 0>>]
        /\ (img.width = 1 /\ img.height >= 1) =>
              curve = [k \in 1..img.height |-> <<0, k - 1>>]

\* the 2 x 1 curve has been generated
C10_Witness ==
    /\ Generated
    /\ img.width = 2 /\ img.height = 1
    /\ curve = <<<<0, 0>>, <<1, 0>>>>


\* the set of the entries of a sequence
Range(s) == {s[k] : k \in 1..Len(s)}

\* two cells that differ by exactly 1 in exactly one of x and y
Adjacent(p, q) == Abs(p[1] - q[1]) + Abs(p[2] - q[2]) = 1

\* generate_mapping has just returned the curve of a rectangle with positive
\* sides
JustGenerated == pc = "validate" /\ img.width >= 1 /\ img.height >= 1

\* C11: for width, height >= 1 the cells emitted by sibling recursive calls of
\* every invocation of generate2d are pairwise disjoint, and every two
\* consecutive coordinates of the curve are adjacent cells.
C11_SegmentsContiguous ==
    JustGenerated =>
        /\ \A c \in Invocations(TopLevelCall(img.width, img.height)) :
              \A j, k \in 1..Len(Calls(c)) :
                  j < k => Range(Emitted(Calls(c)[j])) \cap Range(Emitted(Calls(c)[k])) = {}
        /\ \A k \in 1..(Len(curve) - 1) : Adjacent(curve[k], curve[k + 1])

\* C12: for width, height >= 1 every invocation of generate2d gets a rectangle
\* with both sides at least 1, each recursive call gets a rectangle of smaller
\* area than its caller's with a smaller primary or orthogonal length, each
\* invocation emits as many coordinates as its rectangle has cells, and the
\* curve has width * height coordinates.
C12_RecursionShrinks ==
    JustGenerated =>
        /\ \A c \in Invocations(TopLevelCall(img.width, img.height)) :
              /\ PrimaryLen(c) >= 1 /\ OrthoLen(c) >= 1
              /\ Len(Emitted(c)) = PrimaryLen(c) * OrthoLen(c)
              /\ \A k \in 1..Len(Calls(c)) :
                    LET d == Calls(c)[k]
                    IN  /\ PrimaryLen(d) * OrthoLen(d) < PrimaryLen(c) * OrthoLen(c)
                        /\ PrimaryLen(d) < PrimaryLen(c) \/ OrthoLen(d) < OrthoLen(c)
        /\ Len(curve) = img.width * img.height

\* the curve of the 5 x 4 rectangle, whose top-level call splits three ways
\* into calls that split again, has been generated
C12_Witness ==
    /\ pc = "validate"
    /\ img.width = 5 /\ img.height = 4
    /\ Len(Calls(TopLevelCall(5, 4))) = 3
    /\ \E k \in 1..3 : Calls(Calls(TopLevelCall(5, 4))[k]) # <<>>
    /\ Len(curve) = 20


\* the vector has the wrong number of coordinates for the image, or holds a
\* coordinate outside it
Malformed(c, width, height) ==
    \/ Len(c) # width * height
    \/ \E k \in 1..Len(c) :
          c[k][1] < 0 \/ c[k][1] >= width \/ c[k][2] < 0 \/ c[k][2] >= height

\* copy_pixels has not been called and nothing has been written
NeverCopied ==
    /\ output_img = <<>> /\ written = <<>> /\ i = 0
    /\ imwrites = 0 /\ file = file0

\* C13: a vector with a wrong number of coordinates is reported by
\* generate_mapping and replaced by the empty vector; and once generate_mapping
\* has returned, a curve with a wrong number of coordinates or a coordinate
\* outside the image never gets past the checks of process_image: the run
\* fails with the error of the check, and copy_pixels is never called.
C13_MalformedCurveRejected ==
    /\ [](pc # "count" =>
            /\ Malformed(curve, img.width, img.height) =>
                  /\ pc \in {"validate", "failed"}
                  /\ NeverCopied
                  /\ pc = "failed" =>
                        LastError \in {"empty_curve", "length_mismatch", "out_of_range"}
            /\ pc \in {"prepare", "copy", "verify", "writable", "save", "done"} =>
                  ~Malformed(curve, img.width, img.height))
    /\ [][(pc = "count" /\ Len(curve) # img.width * img.height) =>
              /\ curve' = <<>>
              /\ errlog' = Append(errlog, "count_mismatch")]_vars

\* a vector of the right size with a coordinate outside the image has been
\* rejected by the bounds check of process_image
C13_Witness ==
    /\ pc = "failed"
    /\ img.width = 2
    /\ Len(curve) = 2
    /\ \E k \in 1..2 : curve[k][1] = 2
    /\ errlog = <<"out_of_range">>
    /\ NeverCopied


\* C14: while copy_pixels runs, in either direction, every step leaves the
\* source image, the curve, the total, the offset and the file unchanged;
\* during the call and after its return the source image is still the image
\* that was read, and after its return the curve is still the one
\* generate_mapping returned.
C14_CopyLeavesSourceAndCurve ==
    /\ [][pc = "copy" =>
              /\ img' = img /\ curve' = curve
              /\ total' = total /\ offset' = offset /\ is_encrypt' = is_encrypt
              /\ file' = file /\ errlog' = errlog /\ imwrites' = imwrites]_vars
    /\ [](pc \in {"copy", "verify"} => img = file.mat)
    /\ [](pc = "verify" => curve = generate_mapping(img.width, img.height).coordinates)

\* copy_pixels has returned from unscrambling a 3 x 2 image with distinct
\* pixels: the output differs from the source, and the source is as read
C14_Witness ==
    /\ pc = "verify" /\ CopyFinished /\ ~is_encrypt
    /\ img.width = 3 /\ img.height = 2
    /\ output_img # img.pixels
    /\ \A p, q \in DOMAIN img.pixels : p # q => img.pixels[p] # img.pixels[q]
    /\ img = file.mat


\* the content of the file f after process_image has run on it alone and
\* imwrite has succeeded
RewrittenAlone(f, encrypt) == [f EXCEPT !.mat.pixels = process_image(f, encrypt).output]

\* C15: under every interleaving, the thread created for a file works on that
\* file only, with its own context in every log prefix, its own image and its
\* own output; process_file is called at most once on each file and exactly
\* once by the time main reports; a file on disk is either as it was or, when
\* process_image run on it alone stops on no error, what that run writes; the
\* console lock is held only inside the printing blocks, by one thread at a
\* time; and main reports completion only when every thread has finished.
C15_WorkersIndependent ==
    /\ \A t \in DOMAIN threads :
          LET w == threads[t]
              alone == process_image(disk0[t], is_encrypt)
          IN  /\ w.pc \notin {"none", "created"} => w.path = t
              /\ w.prefix \in {0, t}
              /\ current_ctx[t] \in {NoContext, [file_index |-> t, total_files |-> NumFiles]}
              /\ processed[t] <= 1
              /\ w.pc \in {"check", "copy", "verify", "end", "ending", "finished"} =>
                    processed[t] = 1
              /\ w.pc \in {"check", "copy", "verify"} => w.img = disk0[t].mat
              /\ w.pc = "verify" => w.output_img = alone.output
              /\ disk[t] # disk0[t] =>
                    /\ w.pc \in {"end", "ending", "finished"}
                    /\ alone.error = "none"
                    /\ disk[t] = RewrittenAlone(disk0[t], is_encrypt)
              /\ w.pc \in {"announce", "ending"} <=> cout_mutex = t
    /\ cout_mutex = MainThread <=> main_pc = "report"
    /\ main_pc \in {"report", "exit"} =>
          \A t \in DOMAIN threads : threads[t].pc = "finished" /\ processed[t] = 1

\* main has reported completion for two files, a 3 x 1 and a 2 x 2 image, and
\* each has been rewritten with its own scrambled pixels
C15_Witness ==
    /\ main_pc = "exit"
    /\ NumFiles = 2
    /\ disk0[1].mat.width = 3 /\ disk0[2].mat.width = 2
    /\ disk[1] # disk0[1] /\ disk[2] # disk0[2]
    /\ disk[1] = RewrittenAlone(disk0[1], is_encrypt)
    /\ disk[2] = RewrittenAlone(disk0[2], is_encrypt)
    /\ threads[1].prefix = 1 /\ threads[2].prefix = 2

====
